---- MODULE Spec2Model ----
(***************************************************************************)
(* Model of the qdrant-cloud buf plugins.  Each plugin is a rule handler   *)
(* that the buf host invokes with read-only descriptors and that answers   *)
(* by adding annotations to a response writer.                             *)
(*                                                                         *)
(*   buf-plugin-permissions-breaking : checkPermissionsBreaking            *)
(*   buf-plugin-required-fields      : checkEntityFields,                  *)
(*                                     checkRequestFields                  *)
(*                                                                         *)
(* Go strings whose bytes the code inspects (permissions, method and       *)
(* message names) are sequences of one-character strings; Ord gives the    *)
(* byte of a character.  Strings the code only compares or prints (field   *)
(* names, fully-qualified names) are TLA+ strings.  A message built by     *)
(* fmt.Sprintf is the sequence of its segments: the literal pieces of the  *)
(* format and the formatted arguments, in order.                           *)
(***************************************************************************)
EXTENDS Integers, Sequences, FiniteSets, TLC

VARIABLES
    pc,                       \* "ready": the host is about to call the handler; "done": it returned;
                              \* "concurrent": the host runs the invocations of the variable invocations
    rule,                     \* the rule ID the host invokes
    methodDescriptor,         \* permissions-breaking: the current method
    againstMethodDescriptor,  \* permissions-breaking: the previous method
    request,                  \* required-fields: the plugin options of the request
    fileDescriptor,           \* required-fields: the file given to checkEntityFields
    messageDescriptor,        \* required-fields: the message given to checkRequestFields
    files,                    \* permissions-breaking: the methods of the current files, by full name
    againstFiles,             \* permissions-breaking: the methods of the previous files, by full name
    tables,                   \* the package-level variables of the plugins (the default tables)
    invocations,              \* the handler invocations the host runs at the same time, by number
    responseWriter,           \* the annotations added so far, in order
    err                       \* the error the handler returned ("nil" when none)

vars == <<pc, rule, methodDescriptor, againstMethodDescriptor, request,
          fileDescriptor, messageDescriptor, files, againstFiles, tables, invocations,
          responseWriter, err>>

(***************************************************************************)
(* Bounds of the model.                                                    *)
(***************************************************************************)
\* longest permissions list a method declares
MaxPerms == 2
\* most fields a message declares
MaxFields == 2
\* longest list a plugin option gives
MaxRequired == 2

(***************************************************************************)
(* Go strings and the library functions the plugins call on them.          *)
(***************************************************************************)
\* byte value of each character the model uses
Ord == (" " :> 32) @@ ("\t" :> 9) @@ ("a" :> 97) @@ ("b" :> 98)

\* unicode.IsSpace on the characters of the model
IsSpace(c) == c \in {" ", "\t"}

\* the Go string as printed: the concatenation of its characters
RECURSIVE String(_)
String(s) == IF s = <<>> THEN "" ELSE Head(s) \o String(Tail(s))

\* Go's < on strings: bytewise lexicographic
RECURSIVE StringLess(_, _)
StringLess(s, t) ==
    IF t = <<>> THEN FALSE
    ELSE IF s = <<>> THEN TRUE
    ELSE IF Ord[Head(s)] # Ord[Head(t)] THEN Ord[Head(s)] < Ord[Head(t)]
    ELSE StringLess(Tail(s), Tail(t))

RECURSIVE TrimLeft(_)
TrimLeft(s) ==
    IF s # <<>> /\ IsSpace(Head(s)) THEN TrimLeft(Tail(s)) ELSE s

RECURSIVE TrimRight(_)
TrimRight(s) ==
    IF s # <<>> /\ IsSpace(s[Len(s)]) THEN TrimRight(SubSeq(s, 1, Len(s) - 1)) ELSE s

\* strings.TrimSpace
TrimSpace(s) == TrimRight(TrimLeft(s))

\* x put into the ascending list l, after the entries that are not greater
RECURSIVE InsertSorted(_, _)
InsertSorted(x, l) ==
    IF l = <<>> THEN <<x>>
    ELSE IF StringLess(x, Head(l)) THEN <<x>> \o l
    ELSE <<Head(l)>> \o InsertSorted(x, Tail(l))

\* sort.Strings: the list in ascending order, repeated entries kept
RECURSIVE SortStrings(_)
SortStrings(l) ==
    IF l = <<>> THEN <<>> ELSE InsertSorted(l[Len(l)], SortStrings(SubSeq(l, 1, Len(l) - 1)))

\* fmt verb %q on a string without characters to escape
Quote(s) == "\"" \o s \o "\""

\* fmt verb %t
FormatBool(b) == IF b THEN "true" ELSE "false"

RECURSIVE JoinSpace(_)
JoinSpace(l) ==
    IF l = <<>> THEN ""
    ELSE IF Len(l) = 1 THEN l[1]
    ELSE l[1] \o " " \o JoinSpace(Tail(l))

\* fmt verb %v on a []string whose elements are already printable strings
FormatSlice(l) == "[" \o JoinSpace(l) \o "]"

\* fmt verb %v on a []string of Go strings
FormatStrings(l) == FormatSlice([i \in 1..Len(l) |-> String(l[i])])

(***************************************************************************)
(* The package-level variables of the plugins                              *)
(***************************************************************************)
\* the extensions of the method options the plugins read: the full name of
\* the extension and the field of the method descriptor that holds it
permissionsOption == [fullName |-> "qdrant.cloud.common.v1.permissions", field |-> "permissions"]
restHTTPOption == [fullName |-> "google.api.http", field |-> "http"]
requiresAuthenticationOption ==
    [fullName |-> "qdrant.cloud.common.v1.requires_authentication", field |-> "requiresAuthentication"]
accountIdExpressionOption ==
    [fullName |-> "qdrant.cloud.common.v1.account_id_expression", field |-> "accountIdExpression"]

\* the values the var blocks give to the tables the handlers share
PackageTables ==
    [ crudMethodPrefixes |->
        << <<"L","i","s","t">>, <<"G","e","t">>, <<"D","e","l","e","t","e">>,
           <<"U","p","d","a","t","e">>, <<"C","r","e","a","t","e">> >>,
      crudMethodWithoutFullEntityPrefixes |->
        << <<"L","i","s","t">>, <<"G","e","t">>, <<"D","e","l","e","t","e">> >>,
      defaultRequiredFields |-> << "id", "name", "account_id", "created_at" >>,
      defaultRequiredRequestFields |-> << "account_id" >>,
      preferredEntityFieldNames |->
        [ n \in { "updated_at", "last_updated_at", "cloud_provider", "cloud_provider_region",
                  "cloud_region", "cloud_region_id" } |->
            IF n \in { "updated_at", "last_updated_at" } THEN "last_modified_at"
            ELSE IF n = "cloud_provider" THEN "cloud_provider_id"
            ELSE "cloud_provider_region_id" ],
      extensionRegistry |->
        [ key \in { permissionsOption.fullName, restHTTPOption.fullName } |->
            IF key = permissionsOption.fullName THEN permissionsOption ELSE restHTTPOption ],
      requiredMethodOptionExtensions |->
        << permissionsOption.fullName, restHTTPOption.fullName >> ]

(***************************************************************************)
(* buf-plugin-permissions-breaking                                         *)
(***************************************************************************)
permissionsBreakingRuleID == "QDRANT_CLOUD_PERMISSIONS_BREAKING"

\* values of one entry of the repeated string option "permissions"
RawPermissions ==
    { <<>>, <<"a">>, <<"\t", "a">>, <<"b", " ">> }

\* fully-qualified names of the methods the host pairs
MethodFullNames == { "test.TestService.TestMethod" }

RECURSIVE SeqsUpTo(_, _)
SeqsUpTo(S, n) ==
    IF n = 0 THEN { <<>> }
    ELSE LET shorter == SeqsUpTo(S, n - 1)
         IN  shorter \cup { Append(l, x) : l \in { q \in shorter : Len(q) = n - 1 }, x \in S }

\* the bool extension requires_all_permissions of a method: not set, or set
\* to a value (proto.GetExtension gives false when it is not set)
RequiresAllOptions ==
    { [has |-> FALSE, val |-> FALSE], [has |-> TRUE, val |-> FALSE], [has |-> TRUE, val |-> TRUE] }

\* A method descriptor as this plugin reads it: its full name, the entries
\* of its permissions option (none when the option is not set) and its
\* requires_all_permissions option.
PermissionMethodDescriptors ==
    [ fullName : MethodFullNames,
      permissions : SeqsUpTo(RawPermissions, MaxPerms),
      requiresAllPermissions : RequiresAllOptions ]

\* proto.HasExtension on a repeated field: the list is not empty
HasPermissionsExtension(md) == Len(md.permissions) > 0

\* the entries that are not blank, trimmed, in declaration order
RECURSIVE TrimmedNonEmpty(_)
TrimmedNonEmpty(l) ==
    IF l = <<>> THEN <<>>
    ELSE IF TrimSpace(Head(l)) # <<>>
         THEN <<TrimSpace(Head(l))>> \o TrimmedNonEmpty(Tail(l))
         ELSE TrimmedNonEmpty(Tail(l))

\* getMethodPermissionConfig without the call of sort.Strings
getMethodPermissionConfigUnsorted(md) ==
    [ Permissions |-> IF HasPermissionsExtension(md)
                      THEN TrimmedNonEmpty(md.permissions)
                      ELSE <<>>,
      RequiresAll |-> IF md.requiresAllPermissions.has
                      THEN md.requiresAllPermissions.val
                      ELSE TRUE ]

getMethodPermissionConfig(md) ==
    [ Permissions |-> IF HasPermissionsExtension(md)
                      THEN SortStrings(TrimmedNonEmpty(md.permissions))
                      ELSE <<>>,
      RequiresAll |-> IF md.requiresAllPermissions.has
                      THEN md.requiresAllPermissions.val
                      ELSE TRUE ]

\* permissionsEqual with the comparison of the loop inverted
permissionsEqualInverted(a, b) ==
    IF Len(a) # Len(b) THEN FALSE
    ELSE \A i \in 1..Len(a) : a[i] # b[i]

permissionsEqual(a, b) ==
    IF Len(a) # Len(b) THEN FALSE
    ELSE \A i \in 1..Len(a) : a[i] = b[i]

\* configsEqual that forgets to compare RequiresAll
configsEqualIgnoringLogic(a, b) == permissionsEqual(a.Permissions, b.Permissions)

configsEqual(a, b) ==
    a.RequiresAll = b.RequiresAll /\ permissionsEqual(a.Permissions, b.Permissions)

\* hasRemovedPermissions with the two lists exchanged: it finds additions
hasRemovedPermissionsSwapped(previous, current) ==
    LET previousSet == { previous[i] : i \in 1..Len(previous) }
    IN  \E i \in 1..Len(current) : current[i] \notin previousSet

hasRemovedPermissions(previous, current) ==
    LET currentSet == { current[i] : i \in 1..Len(current) }
    IN  \E i \in 1..Len(previous) : previous[i] \notin currentSet

\* isBreakingChange without the case "permissions are removed completely"
isBreakingChangeWithoutRemoveAll(against, current) ==
    IF configsEqual(against, current) THEN FALSE
    ELSE IF against.RequiresAll # current.RequiresAll
         THEN (IF against.RequiresAll /\ ~current.RequiresAll THEN FALSE ELSE TRUE)
    ELSE IF Len(against.Permissions) = 0 /\ Len(current.Permissions) > 0 THEN TRUE
    ELSE IF Len(against.Permissions) > 0 /\ Len(current.Permissions) > 0
         THEN (IF against.RequiresAll
               THEN ~permissionsEqual(against.Permissions, current.Permissions)
               ELSE hasRemovedPermissions(against.Permissions, current.Permissions))
    ELSE FALSE

isBreakingChange(against, current) ==
    IF configsEqual(against, current) THEN FALSE
    ELSE IF against.RequiresAll # current.RequiresAll
         THEN (IF against.RequiresAll /\ ~current.RequiresAll THEN FALSE ELSE TRUE)
    ELSE IF Len(against.Permissions) = 0 /\ Len(current.Permissions) > 0 THEN TRUE
    ELSE IF Len(against.Permissions) > 0 /\ Len(current.Permissions) = 0 THEN TRUE
    ELSE IF Len(against.Permissions) > 0 /\ Len(current.Permissions) > 0
         THEN (IF against.RequiresAll
               THEN ~permissionsEqual(against.Permissions, current.Permissions)
               ELSE hasRemovedPermissions(against.Permissions, current.Permissions))
    ELSE FALSE

\* breakingMessage that prints the current RequiresAll for both versions
breakingMessageCurrentLogicTwice(fullName, againstConfig, currentConfig) ==
    IF Len(currentConfig.Permissions) = 0
    THEN << "Method ", Quote(fullName), " had permissions ",
            FormatStrings(againstConfig.Permissions),
            " but now has no permissions, this is a breaking change" >>
    ELSE IF Len(againstConfig.Permissions) = 0
    THEN << "Method ", Quote(fullName), " had no permissions but now requires permissions ",
            FormatStrings(currentConfig.Permissions), ", this is a breaking change" >>
    ELSE IF againstConfig.RequiresAll # currentConfig.RequiresAll
    THEN << "Method ", Quote(fullName), " permissions logic changed from requires_all=",
            FormatBool(currentConfig.RequiresAll), " to requires_all=",
            FormatBool(currentConfig.RequiresAll), " with permissions ",
            FormatStrings(againstConfig.Permissions), " to ",
            FormatStrings(currentConfig.Permissions), ", this is a breaking change" >>
    ELSE << "Method ", Quote(fullName), " permissions changed from ",
            FormatStrings(againstConfig.Permissions), " to ",
            FormatStrings(currentConfig.Permissions), " (requires_all=",
            FormatBool(currentConfig.RequiresAll), "), this is a breaking change" >>

\* the message of the annotation, by branch
breakingMessage(fullName, againstConfig, currentConfig) ==
    IF Len(currentConfig.Permissions) = 0
    THEN << "Method ", Quote(fullName), " had permissions ",
            FormatStrings(againstConfig.Permissions),
            " but now has no permissions, this is a breaking change" >>
    ELSE IF Len(againstConfig.Permissions) = 0
    THEN << "Method ", Quote(fullName), " had no permissions but now requires permissions ",
            FormatStrings(currentConfig.Permissions), ", this is a breaking change" >>
    ELSE IF againstConfig.RequiresAll # currentConfig.RequiresAll
    THEN << "Method ", Quote(fullName), " permissions logic changed from requires_all=",
            FormatBool(againstConfig.RequiresAll), " to requires_all=",
            FormatBool(currentConfig.RequiresAll), " with permissions ",
            FormatStrings(againstConfig.Permissions), " to ",
            FormatStrings(currentConfig.Permissions), ", this is a breaking change" >>
    ELSE << "Method ", Quote(fullName), " permissions changed from ",
            FormatStrings(againstConfig.Permissions), " to ",
            FormatStrings(currentConfig.Permissions), " (requires_all=",
            FormatBool(currentConfig.RequiresAll), "), this is a breaking change" >>

\* check.WithMessage(message), check.WithDescriptor(descriptor)
Annotation(message, descriptor) == [message |-> message, descriptor |-> descriptor]

\* the annotations checkPermissionsBreaking adds for a pair of methods
permissionsBreakingAnnotations(md, againstMd) ==
    LET againstConfig == getMethodPermissionConfig(againstMd)
        currentConfig == getMethodPermissionConfig(md)
    IN  IF isBreakingChange(againstConfig, currentConfig)
        THEN << Annotation(breakingMessage(md.fullName, againstConfig, currentConfig),
                           md.fullName) >>
        ELSE <<>>

\* values of the variables a plugin does not use
NoDescriptor == [fullName |-> ""]
NoRequest == [options |-> <<>>]
NoFiles == {}

InitPermissionsBreaking ==
    /\ pc = "ready"
    /\ rule = permissionsBreakingRuleID
    /\ methodDescriptor \in PermissionMethodDescriptors
    /\ againstMethodDescriptor \in PermissionMethodDescriptors
    /\ againstMethodDescriptor.fullName = methodDescriptor.fullName
    /\ request = NoRequest
    /\ fileDescriptor = NoDescriptor
    /\ messageDescriptor = NoDescriptor
    /\ files = NoFiles
    /\ againstFiles = NoFiles
    /\ tables = PackageTables
    /\ invocations = <<>>
    /\ responseWriter = <<>>
    /\ err = "nil"

checkPermissionsBreaking ==
    /\ pc = "ready"
    /\ rule = permissionsBreakingRuleID
    /\ responseWriter' =
         responseWriter \o permissionsBreakingAnnotations(methodDescriptor, againstMethodDescriptor)
    /\ err' = "nil"
    /\ pc' = "done"
    /\ UNCHANGED <<rule, methodDescriptor, againstMethodDescriptor, request,
                   fileDescriptor, messageDescriptor, files, againstFiles,
                   tables, invocations>>

NextPermissionsBreaking == checkPermissionsBreaking

SpecPermissionsBreaking == InitPermissionsBreaking /\ [][NextPermissionsBreaking]_vars

(***************************************************************************)
(* buf-plugin-required-fields                                              *)
(***************************************************************************)
requiredEntityFieldsRuleID == "QDRANT_CLOUD_REQUIRED_ENTITY_FIELDS"
requiredRequestFieldsRuleID == "QDRANT_CLOUD_REQUIRED_REQUEST_FIELDS"

\* the package-level tables, as the handlers find them
crudMethodPrefixes == tables.crudMethodPrefixes
crudMethodWithoutFullEntityPrefixes == tables.crudMethodWithoutFullEntityPrefixes
defaultRequiredFields == tables.defaultRequiredFields
defaultRequiredRequestFields == tables.defaultRequiredRequestFields
preferredEntityFieldNames == tables.preferredEntityFieldNames

\* strings.HasPrefix, strings.TrimPrefix, strings.HasSuffix
HasPrefix(s, prefix) ==
    Len(s) >= Len(prefix) /\ SubSeq(s, 1, Len(prefix)) = prefix
TrimPrefix(s, prefix) ==
    IF HasPrefix(s, prefix) THEN SubSeq(s, Len(prefix) + 1, Len(s)) ELSE s
HasSuffix(s, suffix) ==
    Len(s) >= Len(suffix) /\ SubSeq(s, Len(s) - Len(suffix) + 1, Len(s)) = suffix

\* pluralize.Client.Singular on the words of the model: "...ies" gives
\* "...y", a final "s" that is not part of "ss" is dropped, any other word
\* is returned as it is
Singular(word) ==
    IF Len(word) > 3 /\ HasSuffix(word, <<"i","e","s">>)
    THEN SubSeq(word, 1, Len(word) - 3) \o <<"y">>
    ELSE IF HasSuffix(word, <<"s","s">>) THEN word
    ELSE IF HasSuffix(word, <<"s">>) THEN SubSeq(word, 1, Len(word) - 1)
    ELSE word

\* the first element of the list of prefixes that starts the name, as a
\* one-element list; empty when there is none
RECURSIVE FirstPrefix(_, _)
FirstPrefix(name, prefixes) ==
    IF prefixes = <<>> THEN <<>>
    ELSE IF HasPrefix(name, Head(prefixes)) THEN << Head(prefixes) >>
    ELSE FirstPrefix(name, Tail(prefixes))

inferEntityFromMethodName(methodName) ==
    LET found == FirstPrefix(methodName, crudMethodPrefixes)
    IN  IF found # <<>> THEN Singular(TrimPrefix(methodName, found[1])) ELSE <<>>

\* the set of entity names inferred from the methods of the file's services
extractEntityNames(fd) ==
    { inferEntityFromMethodName(m) : m \in fd.methods } \ { <<>> }

\* GetStringSliceValue that takes a value of another type for no value
GetStringSliceValueLenient(options, key) ==
    IF options[key].kind = "list" THEN [value |-> options[key].value, err |-> "nil"]
    ELSE [value |-> <<>>, err |-> "nil"]

\* option.GetStringSliceValue: the list, nothing when the key is not set,
\* an error when the value is not a list of strings
GetStringSliceValue(options, key) ==
    IF options[key].kind = "malformed" THEN [value |-> <<>>, err |-> "error"]
    ELSE IF options[key].kind = "list" THEN [value |-> options[key].value, err |-> "nil"]
    ELSE [value |-> <<>>, err |-> "nil"]

\* getRequiredEntityFields that adds the configured names to the defaults
getRequiredEntityFieldsAddingDefaults(req) ==
    LET got == GetStringSliceValue(req.options, "required_entity_fields")
    IN  IF got.err # "nil" THEN [value |-> <<>>, err |-> got.err]
        ELSE [value |-> defaultRequiredFields \o got.value, err |-> "nil"]

getRequiredEntityFields(req) ==
    LET got == GetStringSliceValue(req.options, "required_entity_fields")
    IN  IF got.err # "nil" THEN [value |-> <<>>, err |-> got.err]
        ELSE IF Len(got.value) > 0 THEN [value |-> got.value, err |-> "nil"]
        ELSE [value |-> defaultRequiredFields, err |-> "nil"]

\* a ValidationError: the message and the descriptor the issue is found at
\* (a message, or a field of a message)
ValidationError(message, messageName, fieldName) ==
    [ Message |-> message, Descriptor |-> [message |-> messageName, field |-> fieldName] ]

\* the FieldValidator preferredFieldNamesValidator(preferredFieldNames)
\* applied to a field of a message: the errors it returns (none or one)
\* preferredFieldNamesValidator that puts the error at the message
preferredFieldNamesValidatorAtMessage(preferredFieldNames, msg, fieldName) ==
    IF fieldName \in DOMAIN preferredFieldNames /\ preferredFieldNames[fieldName] # fieldName
    THEN << ValidationError(<< "field ", Quote(fieldName), " is discouraged, use ",
                               Quote(preferredFieldNames[fieldName]), " instead" >>,
                            String(msg.name), "") >>
    ELSE <<>>

preferredFieldNamesValidator(preferredFieldNames, msg, fieldName) ==
    IF fieldName \in DOMAIN preferredFieldNames /\ preferredFieldNames[fieldName] # fieldName
    THEN << ValidationError(<< "field ", Quote(fieldName), " is discouraged, use ",
                               Quote(preferredFieldNames[fieldName]), " instead" >>,
                            String(msg.name), fieldName) >>
    ELSE <<>>

\* missingFields that puts each missing field in front of those found before
RECURSIVE missingFieldsReversed(_, _)
missingFieldsReversed(requiredFields, messageFields) ==
    IF requiredFields = <<>> THEN <<>>
    ELSE IF Head(requiredFields) \notin messageFields
         THEN missingFieldsReversed(Tail(requiredFields), messageFields) \o << Head(requiredFields) >>
         ELSE missingFieldsReversed(Tail(requiredFields), messageFields)

\* the required fields that are not in messageFields, in the order of
\* requiredFields
RECURSIVE missingFields(_, _)
missingFields(requiredFields, messageFields) ==
    IF requiredFields = <<>> THEN <<>>
    ELSE IF Head(requiredFields) \notin messageFields
         THEN << Head(requiredFields) >> \o missingFields(Tail(requiredFields), messageFields)
         ELSE missingFields(Tail(requiredFields), messageFields)

\* the MessageValidator missingFieldsValidator(requiredFields) applied to a
\* message and the set of its field names: the errors it returns
missingFieldsValidator(requiredFields, msg, messageFields) ==
    LET missing == missingFields(requiredFields, messageFields)
    IN  IF Len(missing) > 0
        THEN << ValidationError(<< "message ", Quote(String(msg.name)),
                                   " is missing required fields: ", FormatSlice(missing) >>,
                                String(msg.name), "") >>
        ELSE <<>>

\* the errors of the field validators (each the table of a
\* preferredFieldNamesValidator) for the fields from index i on
RECURSIVE fieldErrors(_, _, _)
fieldErrors(msg, fieldValidators, i) ==
    IF i > Len(msg.fields) THEN <<>>
    ELSE LET RECURSIVE each(_)
             each(k) == IF k > Len(fieldValidators) THEN <<>>
                        ELSE preferredFieldNamesValidator(fieldValidators[k], msg, msg.fields[i])
                             \o each(k + 1)
         IN  each(1) \o fieldErrors(msg, fieldValidators, i + 1)

\* the errors of the message validators (each the list of a
\* missingFieldsValidator) from index k on
RECURSIVE messageErrors(_, _, _, _)
messageErrors(msg, messageValidators, existingFields, k) ==
    IF k > Len(messageValidators) THEN <<>>
    ELSE missingFieldsValidator(messageValidators[k], msg, existingFields)
         \o messageErrors(msg, messageValidators, existingFields, k + 1)

\* validateMessage that runs the message validators first
validateMessageMessageFirst(msg, fieldValidators, messageValidators) ==
    LET existingFields == { msg.fields[i] : i \in 1..Len(msg.fields) }
    IN  messageErrors(msg, messageValidators, existingFields, 1)
        \o fieldErrors(msg, fieldValidators, 1)

validateMessage(msg, fieldValidators, messageValidators) ==
    LET existingFields == { msg.fields[i] : i \in 1..Len(msg.fields) }
    IN  fieldErrors(msg, fieldValidators, 1)
        \o messageErrors(msg, messageValidators, existingFields, 1)

\* responseWriter.AddAnnotation for each error, in order
errorAnnotations(errors) ==
    [ i \in 1..Len(errors) |-> Annotation(errors[i].Message, errors[i].Descriptor) ]

\* a lookup that gives the messages of the file whatever the name is
messagesByNameAny(fd, name) == fd.messages

\* Messages().ByName: the top-level messages of the file with that name
\* (none or one), as a list
messagesByName(fd, name) ==
    SelectSeq(fd.messages, LAMBDA m : m.name = name)

\* the annotations of the loop over the entity names taken in this order
RECURSIVE entityAnnotations(_, _, _)
entityAnnotations(fd, requiredFields, entityOrder) ==
    IF entityOrder = <<>> THEN <<>>
    ELSE LET found == messagesByName(fd, Head(entityOrder))
         IN  (IF found = <<>> THEN <<>>
              ELSE errorAnnotations(validateMessage(found[1], << preferredEntityFieldNames >>,
                                                    << requiredFields >>)))
             \o entityAnnotations(fd, requiredFields, Tail(entityOrder))

\* the orders in which a range over a Go map with these keys can run
MapOrders(keys) ==
    { o \in [1..Cardinality(keys) -> keys] : \A i, j \in DOMAIN o : o[i] = o[j] => i = j }

\* the required fields when Update and Create count as well
requestRequiredFieldsAllPrefixes(msgName) ==
    IF \E i \in 1..Len(crudMethodPrefixes) : HasPrefix(msgName, crudMethodPrefixes[i])
    THEN defaultRequiredRequestFields
    ELSE <<>>

\* the required fields of a message whatever its name starts with
requestRequiredFieldsAnyName(msgName) == defaultRequiredRequestFields

\* the required fields checkRequestFields uses for a message name
requestRequiredFields(msgName) ==
    IF \E i \in 1..Len(crudMethodWithoutFullEntityPrefixes) :
           HasPrefix(msgName, crudMethodWithoutFullEntityPrefixes[i])
    THEN defaultRequiredRequestFields
    ELSE <<>>

\* names of the methods a file's services can declare
MethodNames ==
    { <<"L","i","s","t","B","o","o","k","s">>,
      <<"G","e","t","B","o","o","k">>,
      <<"U","p","d","a","t","e","C","a","t","e","g","o","r","i","e","s">>,
      <<"C","r","e","a","t","e","C","a","t","e","g","o","r","y">>,
      <<"P","u","b","l","i","s","h">> }

\* names of the top-level messages a file can declare, in file order
EntityMessageNames ==
    << <<"B","o","o","k">>, <<"C","a","t","e","g","o","r","y">> >>

\* names of the fields of these messages
EntityFieldNames == { "id", "updated_at", "cloud_region" }

\* names of the messages given to checkRequestFields, and of their fields
RequestMessageNames ==
    { <<"L","i","s","t","B","o","o","k","s","R","e","q","u","e","s","t">>,
      <<"D","e","l","e","t","e","B","o","o","k","R","e","q","u","e","s","t">>,
      <<"C","r","e","a","t","e","B","o","o","k","R","e","q","u","e","s","t">>,
      <<"U","p","d","a","t","e","B","o","o","k","R","e","q","u","e","s","t">>,
      <<"L","i","s","t","B","o","o","k","s","R","e","s","p","o","n","s","e">>,
      <<"B","o","o","k">> }
RequestFieldNames == { "account_id", "name" }

\* field names a plugin option can list
OptionFieldNames == { "id", "account_id" }

\* the lists of at most n names of S without repetition: the fields of a message
FieldLists(S, n) ==
    { l \in SeqsUpTo(S, n) : \A i, j \in 1..Len(l) : l[i] = l[j] => i = j }

\* the value of a plugin option: not set, a list of strings, or a value of
\* another type
OptionValues ==
    { [kind |-> "absent", value |-> <<>>], [kind |-> "malformed", value |-> <<>>] }
    \cup { [kind |-> "list", value |-> l] : l \in SeqsUpTo(OptionFieldNames, MaxRequired) }

OptionAbsent == [kind |-> "absent", value |-> <<>>]

MessageDescriptors(names, fieldNames) ==
    [ name : names, fields : FieldLists(fieldNames, MaxFields) ]

\* the message lists of a file: each name of EntityMessageNames declared or not
FileMessageLists ==
    LET first == MessageDescriptors({ EntityMessageNames[1] }, EntityFieldNames)
        second == MessageDescriptors({ EntityMessageNames[2] }, EntityFieldNames)
    IN  { <<>> } \cup { << m >> : m \in first \cup second }
        \cup { << m1, m2 >> : m1 \in first, m2 \in second }

FileDescriptors == [ methods : SUBSET MethodNames, messages : FileMessageLists ]

InitEntityFields ==
    /\ pc = "ready"
    /\ rule = requiredEntityFieldsRuleID
    /\ request \in [ options : [ required_entity_fields : OptionValues,
                                 required_request_fields : { OptionAbsent } ] ]
    /\ fileDescriptor \in FileDescriptors
    /\ messageDescriptor = NoDescriptor
    /\ methodDescriptor = NoDescriptor
    /\ againstMethodDescriptor = NoDescriptor
    /\ files = NoFiles
    /\ againstFiles = NoFiles
    /\ tables = PackageTables
    /\ invocations = <<>>
    /\ responseWriter = <<>>
    /\ err = "nil"

\* the names of the methods of the file's services that take a message as
\* their request: no method, a List method, or a Create method
RequestOwners ==
    { {},
      { <<"L","i","s","t","B","o","o","k","s">> },
      { <<"C","r","e","a","t","e","C","a","t","e","g","o","r","y">> } }

\* a message given to checkRequestFields: its name, its fields and the
\* methods that use it
RequestMessageDescriptors ==
    [ name : RequestMessageNames,
      fields : FieldLists(RequestFieldNames, MaxFields),
      usedBy : RequestOwners ]

InitRequestFields ==
    /\ pc = "ready"
    /\ rule = requiredRequestFieldsRuleID
    /\ request \in [ options : [ required_entity_fields : { OptionAbsent },
                                 required_request_fields : OptionValues ] ]
    /\ fileDescriptor = NoDescriptor
    /\ messageDescriptor \in RequestMessageDescriptors
    /\ methodDescriptor = NoDescriptor
    /\ againstMethodDescriptor = NoDescriptor
    /\ files = NoFiles
    /\ againstFiles = NoFiles
    /\ tables = PackageTables
    /\ invocations = <<>>
    /\ responseWriter = <<>>
    /\ err = "nil"

InitRequiredFields == InitEntityFields \/ InitRequestFields

checkEntityFields ==
    /\ pc = "ready"
    /\ rule = requiredEntityFieldsRuleID
    /\ LET required == getRequiredEntityFields(request)
       IN  IF required.err # "nil"
           THEN /\ err' = required.err
                /\ UNCHANGED responseWriter
           ELSE /\ err' = "nil"
                /\ \E order \in MapOrders(extractEntityNames(fileDescriptor)) :
                     responseWriter' =
                       responseWriter \o entityAnnotations(fileDescriptor, required.value, order)
    /\ pc' = "done"
    /\ UNCHANGED <<rule, methodDescriptor, againstMethodDescriptor, request,
                   fileDescriptor, messageDescriptor, files, againstFiles,
                   tables, invocations>>

checkRequestFields ==
    /\ pc = "ready"
    /\ rule = requiredRequestFieldsRuleID
    /\ LET msgName == messageDescriptor.name
       IN  IF ~HasSuffix(msgName, <<"R","e","q","u","e","s","t">>)
           THEN UNCHANGED responseWriter
           ELSE responseWriter' =
                  responseWriter \o
                  errorAnnotations(validateMessage(messageDescriptor, <<>>,
                                                   << requestRequiredFields(msgName) >>))
    /\ err' = "nil"
    /\ pc' = "done"
    /\ UNCHANGED <<rule, methodDescriptor, againstMethodDescriptor, request,
                   fileDescriptor, messageDescriptor, files, againstFiles,
                   tables, invocations>>

NextRequiredFields == checkEntityFields \/ checkRequestFields

SpecRequiredFields == InitRequiredFields /\ [][NextRequiredFields]_vars

(***************************************************************************)
(* buf-plugin-permissions-breaking: the method pair rule handler           *)
(***************************************************************************)
\* fully-qualified names of the methods of the two versions of the files
PairFullNames == { "test.TestService.TestMethod", "test.TestService.NewMethod" }

\* values of the permissions option of the methods of the two versions
PairPermissions == { <<>>, << <<"a">> >>, << <<"a">>, <<"b", " ">> >> }

PairMethodDescriptors ==
    [ fullName : PairFullNames,
      permissions : PairPermissions,
      requiresAllPermissions : RequiresAllOptions ]

\* the methods of one version of the files: full names are unique
MethodSets ==
    LET choices == { {} } \cup { {md} : md \in PairMethodDescriptors }
        byName == { f \in [PairFullNames -> choices] :
                      \A n \in PairFullNames : \A md \in f[n] : md.fullName = n }
    IN  { UNION { f[n] : n \in PairFullNames } : f \in byName }

\* pairing that gives a method without a previous version an empty one
methodPairsWithNewMethods(current, against) ==
    { pair \in [method : current, against : against] :
        pair.method.fullName = pair.against.fullName }
    \cup { [method |-> md,
            against |-> [fullName |-> md.fullName, permissions |-> <<>>,
                         requiresAllPermissions |-> [has |-> FALSE, val |-> FALSE]]] :
           md \in { c \in current : \A amd \in against : amd.fullName # c.fullName } }

\* the pairs the handler built by checkutil.NewMethodPairRuleHandler calls
\* checkPermissionsBreaking with: a method of the current files and the
\* method of the previous files with the same full name
methodPairs(current, against) ==
    { pair \in [method : current, against : against] :
        pair.method.fullName = pair.against.fullName }

\* the annotations of the calls of checkPermissionsBreaking, in call order
RECURSIVE pairAnnotations(_)
pairAnnotations(pairOrder) ==
    IF pairOrder = <<>> THEN <<>>
    ELSE permissionsBreakingAnnotations(Head(pairOrder).method, Head(pairOrder).against)
         \o pairAnnotations(Tail(pairOrder))

InitPermissionsPairs ==
    /\ pc = "ready"
    /\ rule = permissionsBreakingRuleID
    /\ methodDescriptor = NoDescriptor
    /\ againstMethodDescriptor = NoDescriptor
    /\ request = NoRequest
    /\ fileDescriptor = NoDescriptor
    /\ messageDescriptor = NoDescriptor
    /\ files \in MethodSets
    /\ againstFiles \in MethodSets
    /\ tables = PackageTables
    /\ invocations = <<>>
    /\ responseWriter = <<>>
    /\ err = "nil"

\* the rule handler: checkPermissionsBreaking for every pair of methods
methodPairRuleHandler ==
    /\ pc = "ready"
    /\ rule = permissionsBreakingRuleID
    /\ \E pairOrder \in MapOrders(methodPairs(files, againstFiles)) :
         responseWriter' = responseWriter \o pairAnnotations(pairOrder)
    /\ err' = "nil"
    /\ pc' = "done"
    /\ UNCHANGED <<rule, methodDescriptor, againstMethodDescriptor, request,
                   fileDescriptor, messageDescriptor, files, againstFiles,
                   tables, invocations>>

NextPermissionsPairs == methodPairRuleHandler

SpecPermissionsPairs == InitPermissionsPairs /\ [][NextPermissionsPairs]_vars

(***************************************************************************)
(* buf-plugin-method-options                                               *)
(***************************************************************************)
methodOptionsRuleID == "QDRANT_CLOUD_METHOD_OPTIONS"
methodOptionsOptionKey == "required_method_options"

\* the longest configured list of required options
MaxOptions == 2

\* the package-level tables, as the handler finds them
extensionRegistry == tables.extensionRegistry
requiredMethodOptionExtensions == tables.requiredMethodOptionExtensions

\* keys a configured list of required options can hold
MethodOptionKeys ==
    { "qdrant.cloud.common.v1.permissions", "google.api.http", "unknown.extension",
      "other.extension" }

\* values of the option required_method_options
MethodOptionValues ==
    { [kind |-> "absent", value |-> <<>>], [kind |-> "malformed", value |-> <<>>] }
    \cup { [kind |-> "list", value |-> l] : l \in SeqsUpTo(MethodOptionKeys, MaxOptions) }

\* values of the permissions option of a method: not set, a blank entry, an entry
MethodPermissionLists == { <<>>, << "" >>, << "read:api_keys" >> }

\* the string extension account_id_expression: not set, or set to a value
AccountIdExpressions ==
    { [has |-> FALSE, val |-> ""], [has |-> TRUE, val |-> ""], [has |-> TRUE, val |-> "account_id"] }

\* A method descriptor as this plugin reads it: its full name and its
\* options permissions, google.api.http, requires_authentication and
\* account_id_expression.
OptionMethodDescriptors ==
    [ fullName : { "simple.GreeterService.HelloWorld" },
      permissions : MethodPermissionLists,
      http : BOOLEAN,
      requiresAuthentication : RequiresAllOptions,
      accountIdExpression : AccountIdExpressions ]

\* proto.HasExtension(methodDescriptor.Options(), extension)
HasExtension(md, extension) ==
    IF extension.field = "permissions" THEN Len(md.permissions) > 0
    ELSE IF extension.field = "http" THEN md.http
    ELSE IF extension.field = "requiresAuthentication" THEN md.requiresAuthentication.has
    ELSE md.accountIdExpression.has

\* the annotation for a required option the method does not define
missingOptionAnnotation(md, extension) ==
    Annotation(<< "Method ", Quote(md.fullName), " does not define the ",
                  Quote(extension.fullName), " option" >>,
               md.fullName)

\* the descriptor of an annotation added without check.WithDescriptor
NoLocation == ""

\* the loop with a waiver that does not look at the value of
\* requires_authentication
RECURSIVE requiredOptionsLoopAnyAuthentication(_, _)
requiredOptionsLoopAnyAuthentication(md, requiredOptions) ==
    IF requiredOptions = <<>> THEN [annotations |-> <<>>, returned |-> FALSE]
    ELSE LET extensionKey == Head(requiredOptions)
         IN  IF extensionKey \notin DOMAIN extensionRegistry
             THEN [annotations |->
                     << Annotation(<< "extension key ", Quote(extensionKey), " does not exist" >>,
                                   NoLocation) >>,
                   returned |-> TRUE]
             ELSE LET extension == extensionRegistry[extensionKey]
                      rest == requiredOptionsLoopAnyAuthentication(md, Tail(requiredOptions))
                  IN  IF HasExtension(md, extension) THEN rest
                      ELSE IF /\ extensionKey = "qdrant.cloud.common.v1.permissions"
                              /\ HasExtension(md, requiresAuthenticationOption)
                           THEN [annotations |-> <<>>, returned |-> FALSE]
                           ELSE [annotations |->
                                   << missingOptionAnnotation(md, extension) >> \o rest.annotations,
                                 returned |-> rest.returned]

\* the loop that goes on with the next key after a key that is not in the
\* registry
RECURSIVE requiredOptionsLoopContinuing(_, _)
requiredOptionsLoopContinuing(md, requiredOptions) ==
    IF requiredOptions = <<>> THEN [annotations |-> <<>>, returned |-> FALSE]
    ELSE LET extensionKey == Head(requiredOptions)
             rest == requiredOptionsLoopContinuing(md, Tail(requiredOptions))
         IN  IF extensionKey \notin DOMAIN extensionRegistry
             THEN [annotations |->
                     << Annotation(<< "extension key ", Quote(extensionKey), " does not exist" >>,
                                   NoLocation) >> \o rest.annotations,
                   returned |-> rest.returned]
             ELSE LET extension == extensionRegistry[extensionKey]
                  IN  IF HasExtension(md, extension) THEN rest
                      ELSE IF /\ extensionKey = "qdrant.cloud.common.v1.permissions"
                              /\ HasExtension(md, requiresAuthenticationOption)
                              /\ ~md.requiresAuthentication.val
                           THEN [annotations |-> <<>>, returned |-> FALSE]
                           ELSE [annotations |->
                                   << missingOptionAnnotation(md, extension) >> \o rest.annotations,
                                 returned |-> rest.returned]

\* the loop over requiredOptions: the annotations it adds, and whether it
\* ends with the return for a key that is not in the registry
RECURSIVE requiredOptionsLoop(_, _)
requiredOptionsLoop(md, requiredOptions) ==
    IF requiredOptions = <<>> THEN [annotations |-> <<>>, returned |-> FALSE]
    ELSE LET extensionKey == Head(requiredOptions)
         IN  IF extensionKey \notin DOMAIN extensionRegistry
             THEN [annotations |->
                     << Annotation(<< "extension key ", Quote(extensionKey), " does not exist" >>,
                                   NoLocation) >>,
                   returned |-> TRUE]
             ELSE LET extension == extensionRegistry[extensionKey]
                      rest == requiredOptionsLoop(md, Tail(requiredOptions))
                  IN  IF HasExtension(md, extension) THEN rest
                      ELSE IF /\ extensionKey = "qdrant.cloud.common.v1.permissions"
                              /\ HasExtension(md, requiresAuthenticationOption)
                              /\ ~md.requiresAuthentication.val
                           THEN [annotations |-> <<>>, returned |-> FALSE]
                           ELSE [annotations |->
                                   << missingOptionAnnotation(md, extension) >> \o rest.annotations,
                                 returned |-> rest.returned]

\* the conflict check without the test that account_id_expression is set
conflictAnnotationsWithoutPresence(md) ==
    IF HasExtension(md, permissionsOption)
    THEN LET permissions == SelectSeq(md.permissions, LAMBDA perm : perm # "")
         IN  IF Len(permissions) > 0 /\ md.accountIdExpression.val = ""
             THEN << Annotation(<< "Method ", Quote(md.fullName),
                                   " has permissions set but account_id_expression is empty. Methods with permissions require a non-empty account_id_expression since permissions are checked in the scope of the account" >>,
                                md.fullName) >>
             ELSE <<>>
    ELSE <<>>

\* the check for permissions together with an empty account_id_expression
conflictAnnotations(md) ==
    IF HasExtension(md, permissionsOption) /\ HasExtension(md, accountIdExpressionOption)
    THEN LET permissions == SelectSeq(md.permissions, LAMBDA perm : perm # "")
         IN  IF Len(permissions) > 0 /\ md.accountIdExpression.val = ""
             THEN << Annotation(<< "Method ", Quote(md.fullName),
                                   " has permissions set but account_id_expression is empty. Methods with permissions require a non-empty account_id_expression since permissions are checked in the scope of the account" >>,
                                md.fullName) >>
             ELSE <<>>
    ELSE <<>>

\* the list of required options: the configured one when it is not empty
requiredOptionsOf(optionValue) ==
    IF Len(optionValue) > 0 THEN optionValue ELSE requiredMethodOptionExtensions

InitMethodOptions ==
    /\ pc = "ready"
    /\ rule = methodOptionsRuleID
    /\ methodDescriptor \in OptionMethodDescriptors
    /\ againstMethodDescriptor = NoDescriptor
    /\ request \in [ options : [ required_method_options : MethodOptionValues ] ]
    /\ fileDescriptor = NoDescriptor
    /\ messageDescriptor = NoDescriptor
    /\ files = NoFiles
    /\ againstFiles = NoFiles
    /\ tables = PackageTables
    /\ invocations = <<>>
    /\ responseWriter = <<>>
    /\ err = "nil"

checkMethodOptions ==
    /\ pc = "ready"
    /\ rule = methodOptionsRuleID
    /\ LET got == GetStringSliceValue(request.options, methodOptionsOptionKey)
       IN  IF got.err # "nil"
           THEN /\ err' = got.err
                /\ UNCHANGED responseWriter
           ELSE LET loop == requiredOptionsLoop(methodDescriptor, requiredOptionsOf(got.value))
                IN  /\ err' = "nil"
                    /\ responseWriter' =
                         IF loop.returned
                         THEN responseWriter \o loop.annotations
                         ELSE responseWriter \o loop.annotations
                              \o conflictAnnotations(methodDescriptor)
    /\ pc' = "done"
    /\ UNCHANGED <<rule, methodDescriptor, againstMethodDescriptor, request,
                   fileDescriptor, messageDescriptor, files, againstFiles,
                   tables, invocations>>

NextMethodOptions == checkMethodOptions

SpecMethodOptions == InitMethodOptions /\ [][NextMethodOptions]_vars

(***************************************************************************)
(* The rules that read a string-list option, with the option not set or    *)
(* set to a value of another type                                          *)
(***************************************************************************)
InitStringListOptions ==
    \/ InitEntityFields /\ request.options.required_entity_fields.kind # "list"
    \/ InitMethodOptions /\ request.options.required_method_options.kind # "list"

NextStringListOptions == checkEntityFields \/ checkMethodOptions

SpecStringListOptions == InitStringListOptions /\ [][NextStringListOptions]_vars

(***************************************************************************)
(* Handler invocations of one plugin that the host runs at the same time.  *)
(* Each invocation has its own arguments, locals and response writer; the  *)
(* package-level variables are shared. A step is a statement of a handler  *)
(* (a call, an iteration of a loop, a return), so the statements of the    *)
(* invocations interleave.                                                 *)
(***************************************************************************)
\* the number of invocations in flight at the same time
MaxInvocations == 2

\* a PermissionConfig local before it is assigned
NoConfig == [Permissions |-> <<>>, RequiresAll |-> TRUE]

\* an invocation the host is about to make: the arguments of the handler, the
\* position in its body, its locals, its response writer and returned error
Invocation(ruleID, req, fd, msg, md, againstMd) ==
    [ rule |-> ruleID, request |-> req, fileDescriptor |-> fd, messageDescriptor |-> msg,
      methodDescriptor |-> md, againstMethodDescriptor |-> againstMd,
      pc |-> "ready",
      requiredFields |-> <<>>, entityNames |-> {}, requiredOptions |-> <<>>,
      againstConfig |-> NoConfig, currentConfig |-> NoConfig,
      responseWriter |-> <<>>, err |-> "nil" ]

\* invocations of checkEntityFields: a file with the messages Book and
\* Category and methods naming both, one or none as entities; the option
\* required_entity_fields not set, malformed, or one of two lists
EntityInvocations ==
    { Invocation(requiredEntityFieldsRuleID, req, fd, NoDescriptor, NoDescriptor, NoDescriptor) :
        req \in { r \in [ options : [ required_entity_fields : OptionValues,
                                      required_request_fields : { OptionAbsent } ] ] :
                    LET o == r.options.required_entity_fields
                    IN  o.kind = "list" => o.value \in { << "id" >>, << "account_id", "id" >> } },
        fd \in { f \in FileDescriptors :
                   /\ f.methods \in { { <<"L","i","s","t","B","o","o","k","s">>,
                                        <<"C","r","e","a","t","e","C","a","t","e","g","o","r","y">> },
                                      { <<"G","e","t","B","o","o","k">> },
                                      { <<"P","u","b","l","i","s","h">> } }
                   /\ Len(f.messages) = Len(EntityMessageNames)
                   /\ f.messages[1].fields \in { <<>>, << "updated_at" >>, << "id", "cloud_region" >> }
                   /\ f.messages[2].fields \in { <<>>, << "id" >> } } }

\* invocations of checkRequestFields: a List request, a Create request or a
\* message that is no request, with or without the field account_id
RequestInvocations ==
    { Invocation(requiredRequestFieldsRuleID, req, NoDescriptor, msg, NoDescriptor, NoDescriptor) :
        req \in [ options : [ required_entity_fields : { OptionAbsent },
                              required_request_fields : { OptionAbsent } ] ],
        msg \in { m \in RequestMessageDescriptors :
                    /\ m.name \in { <<"L","i","s","t","B","o","o","k","s","R","e","q","u","e","s","t">>,
                                    <<"C","r","e","a","t","e","B","o","o","k","R","e","q","u","e","s","t">>,
                                    <<"B","o","o","k">> }
                    /\ m.fields \in { <<>>, << "account_id" >> }
                    /\ m.usedBy = {} } }

\* invocations of checkMethodOptions: a method with or without permissions,
\* http, the waiver and an empty account_id_expression; the option
\* required_method_options not set, malformed, or a list with an unknown key
MethodOptionsInvocations ==
    { Invocation(methodOptionsRuleID, req, NoDescriptor, NoDescriptor, md, NoDescriptor) :
        req \in { r \in [ options : [ required_method_options : MethodOptionValues ] ] :
                    LET o == r.options.required_method_options
                    IN  o.kind = "list" =>
                          o.value = << "google.api.http", "unknown.extension" >> },
        md \in { m \in OptionMethodDescriptors :
                   /\ m.permissions # << "" >>
                   /\ m.requiresAuthentication # [has |-> TRUE, val |-> TRUE]
                   /\ m.accountIdExpression # [has |-> TRUE, val |-> "account_id"] } }

\* invocations of checkPermissionsBreaking: a pair of methods of the same
\* name, each with at most one entry in its permissions
PermissionsBreakingInvocations ==
    { Invocation(permissionsBreakingRuleID, NoRequest, NoDescriptor, NoDescriptor, md, againstMd) :
        md \in { m \in PermissionMethodDescriptors : Len(m.permissions) <= 1 },
        againstMd \in { m \in PermissionMethodDescriptors :
                          Len(m.permissions) <= 1 /\ m.requiresAllPermissions.has } }

\* the invocations the host can make
Invocations ==
    EntityInvocations \cup RequestInvocations
    \cup MethodOptionsInvocations \cup PermissionsBreakingInvocations

\* the invocations that run beside the first one when they are not a second
\* run on its descriptors and options: of each rule one or two, with the
\* option of the rule set to a list where the rule reads one
OtherInvocations ==
    { o \in EntityInvocations :
        /\ o.request.options.required_entity_fields.value = << "account_id", "id" >>
        /\ Cardinality(o.fileDescriptor.methods) = 2
        /\ o.fileDescriptor.messages[1].fields = << "updated_at" >>
        /\ o.fileDescriptor.messages[2].fields = <<>> }
    \cup { o \in RequestInvocations :
             /\ HasPrefix(o.messageDescriptor.name, <<"L","i","s","t">>)
             /\ o.messageDescriptor.fields = <<>> }
    \cup { o \in MethodOptionsInvocations :
             /\ o.request.options.required_method_options.kind # "malformed"
             /\ o.methodDescriptor.permissions = <<>>
             /\ ~o.methodDescriptor.http
             /\ ~o.methodDescriptor.requiresAuthentication.has
             /\ ~o.methodDescriptor.accountIdExpression.has }
    \cup { o \in PermissionsBreakingInvocations :
             /\ o.againstMethodDescriptor.permissions = << <<"a">> >>
             /\ o.againstMethodDescriptor.requiresAllPermissions.val
             /\ o.methodDescriptor.permissions = <<>>
             /\ o.methodDescriptor.requiresAllPermissions.has }

\* the plugin (the process) a rule belongs to
PluginOf(ruleID) ==
    IF ruleID \in { requiredEntityFieldsRuleID, requiredRequestFieldsRuleID }
    THEN "buf-plugin-required-fields"
    ELSE IF ruleID = methodOptionsRuleID THEN "buf-plugin-method-options"
    ELSE "buf-plugin-permissions-breaking"

InitConcurrentInvocations ==
    /\ pc = "concurrent"
    /\ rule = ""
    /\ methodDescriptor = NoDescriptor
    /\ againstMethodDescriptor = NoDescriptor
    /\ request = NoRequest
    /\ fileDescriptor = NoDescriptor
    /\ messageDescriptor = NoDescriptor
    /\ files = NoFiles
    /\ againstFiles = NoFiles
    /\ tables = PackageTables
    /\ \E first \in Invocations :
         invocations \in
           { running \in [ 1..MaxInvocations ->
                             { first } \cup { o \in OtherInvocations :
                                                PluginOf(o.rule) = PluginOf(first.rule) } ] :
               running[1] = first }
    /\ responseWriter = <<>>
    /\ err = "nil"

\* what the steps of the invocations leave alone
HostUnchanged ==
    UNCHANGED <<pc, rule, methodDescriptor, againstMethodDescriptor, request,
                fileDescriptor, messageDescriptor, files, againstFiles,
                responseWriter, err>>

\* checkEntityFields with a getRequiredEntityFields that appends the configured
\* names to the package-level defaultRequiredFields and returns that
entityGetRequiredFieldsIntoDefaults(i) ==
    LET inv == invocations[i]
        got == GetStringSliceValue(inv.request.options, "required_entity_fields")
    IN  /\ inv.rule = requiredEntityFieldsRuleID
        /\ inv.pc = "ready"
        /\ IF got.err # "nil"
           THEN /\ invocations' = [invocations EXCEPT ![i] =
                                     [inv EXCEPT !.err = got.err, !.pc = "done"]]
                /\ UNCHANGED tables
           ELSE /\ tables' = [tables EXCEPT !.defaultRequiredFields = @ \o got.value]
                /\ invocations' = [invocations EXCEPT ![i] =
                                     [inv EXCEPT !.requiredFields =
                                                   defaultRequiredFields \o got.value,
                                                 !.pc = "extract"]]
        /\ HostUnchanged

\* checkEntityFields: the call of getRequiredEntityFields and the return of
\* its error
entityGetRequiredFields(i) ==
    LET inv == invocations[i]
        required == getRequiredEntityFields(inv.request)
    IN  /\ inv.rule = requiredEntityFieldsRuleID
        /\ inv.pc = "ready"
        /\ invocations' = [invocations EXCEPT ![i] =
             IF required.err # "nil"
             THEN [inv EXCEPT !.err = required.err, !.pc = "done"]
             ELSE [inv EXCEPT !.requiredFields = required.value, !.pc = "extract"]]
        /\ UNCHANGED tables
        /\ HostUnchanged

\* checkEntityFields: the call of extractEntityNames, whose map the loop ranges over
entityExtractNames(i) ==
    LET inv == invocations[i]
    IN  /\ inv.rule = requiredEntityFieldsRuleID
        /\ inv.pc = "extract"
        /\ invocations' = [invocations EXCEPT ![i] =
             [inv EXCEPT !.entityNames = extractEntityNames(inv.fileDescriptor),
                         !.pc = "range"]]
        /\ UNCHANGED tables
        /\ HostUnchanged

\* checkEntityFields: an iteration of the loop, for an entity name the range
\* has not given yet
entityRange(i) ==
    LET inv == invocations[i]
    IN  /\ inv.rule = requiredEntityFieldsRuleID
        /\ inv.pc = "range"
        /\ \E entityName \in inv.entityNames :
             LET msg == messagesByName(inv.fileDescriptor, entityName)
                 errors == IF msg = <<>> THEN <<>>
                           ELSE validateMessage(msg[1], << preferredEntityFieldNames >>,
                                                << inv.requiredFields >>)
             IN  invocations' = [invocations EXCEPT ![i] =
                   [inv EXCEPT !.responseWriter = @ \o errorAnnotations(errors),
                               !.entityNames = @ \ { entityName }]]
        /\ UNCHANGED tables
        /\ HostUnchanged

\* checkEntityFields: the return after the loop
entityReturn(i) ==
    LET inv == invocations[i]
    IN  /\ inv.rule = requiredEntityFieldsRuleID
        /\ inv.pc = "range"
        /\ inv.entityNames = {}
        /\ invocations' = [invocations EXCEPT ![i] = [inv EXCEPT !.pc = "done"]]
        /\ UNCHANGED tables
        /\ HostUnchanged

\* checkRequestFields: the test of the suffix and the loop over the prefixes
\* that assigns requiredFields
requestSelectFields(i) ==
    LET inv == invocations[i]
        msgName == inv.messageDescriptor.name
    IN  /\ inv.rule = requiredRequestFieldsRuleID
        /\ inv.pc = "ready"
        /\ invocations' = [invocations EXCEPT ![i] =
             IF ~HasSuffix(msgName, <<"R","e","q","u","e","s","t">>)
             THEN [inv EXCEPT !.pc = "done"]
             ELSE [inv EXCEPT !.requiredFields = requestRequiredFields(msgName),
                              !.pc = "validate"]]
        /\ UNCHANGED tables
        /\ HostUnchanged

\* checkRequestFields: validateMessage, the annotations and the return
requestValidate(i) ==
    LET inv == invocations[i]
    IN  /\ inv.rule = requiredRequestFieldsRuleID
        /\ inv.pc = "validate"
        /\ invocations' = [invocations EXCEPT ![i] =
             [inv EXCEPT !.responseWriter =
                           @ \o errorAnnotations(validateMessage(inv.messageDescriptor, <<>>,
                                                                 << inv.requiredFields >>)),
                         !.pc = "done"]]
        /\ UNCHANGED tables
        /\ HostUnchanged

\* checkMethodOptions: the read of the option and the choice of requiredOptions
optionsRead(i) ==
    LET inv == invocations[i]
        got == GetStringSliceValue(inv.request.options, methodOptionsOptionKey)
    IN  /\ inv.rule = methodOptionsRuleID
        /\ inv.pc = "ready"
        /\ invocations' = [invocations EXCEPT ![i] =
             IF got.err # "nil"
             THEN [inv EXCEPT !.err = got.err, !.pc = "done"]
             ELSE [inv EXCEPT !.requiredOptions = requiredOptionsOf(got.value),
                              !.pc = "range"]]
        /\ UNCHANGED tables
        /\ HostUnchanged

\* checkMethodOptions: an iteration of the loop, for the next key of
\* requiredOptions (the local keeps the keys the range has not given yet)
optionsRange(i) ==
    LET inv == invocations[i]
        md == inv.methodDescriptor
    IN  /\ inv.rule = methodOptionsRuleID
        /\ inv.pc = "range"
        /\ inv.requiredOptions # <<>>
        /\ LET extensionKey == Head(inv.requiredOptions)
               rest == Tail(inv.requiredOptions)
           IN  invocations' = [invocations EXCEPT ![i] =
                 IF extensionKey \notin DOMAIN extensionRegistry
                 THEN [inv EXCEPT !.responseWriter =
                                    Append(@, Annotation(<< "extension key ", Quote(extensionKey),
                                                            " does not exist" >>, NoLocation)),
                                  !.pc = "done"]
                 ELSE IF HasExtension(md, extensionRegistry[extensionKey])
                 THEN [inv EXCEPT !.requiredOptions = rest]
                 ELSE IF /\ extensionKey = "qdrant.cloud.common.v1.permissions"
                         /\ HasExtension(md, requiresAuthenticationOption)
                         /\ ~md.requiresAuthentication.val
                 THEN [inv EXCEPT !.pc = "conflict"]
                 ELSE [inv EXCEPT !.responseWriter =
                                    Append(@, missingOptionAnnotation(
                                                md, extensionRegistry[extensionKey])),
                                  !.requiredOptions = rest]]
        /\ UNCHANGED tables
        /\ HostUnchanged

\* checkMethodOptions: the end of the loop
optionsRangeEnd(i) ==
    LET inv == invocations[i]
    IN  /\ inv.rule = methodOptionsRuleID
        /\ inv.pc = "range"
        /\ inv.requiredOptions = <<>>
        /\ invocations' = [invocations EXCEPT ![i] = [inv EXCEPT !.pc = "conflict"]]
        /\ UNCHANGED tables
        /\ HostUnchanged

\* checkMethodOptions: the conflict check and the return
optionsConflict(i) ==
    LET inv == invocations[i]
    IN  /\ inv.rule = methodOptionsRuleID
        /\ inv.pc = "conflict"
        /\ invocations' = [invocations EXCEPT ![i] =
             [inv EXCEPT !.responseWriter = @ \o conflictAnnotations(inv.methodDescriptor),
                         !.pc = "done"]]
        /\ UNCHANGED tables
        /\ HostUnchanged

\* checkPermissionsBreaking: the two calls of getMethodPermissionConfig
permissionsConfigs(i) ==
    LET inv == invocations[i]
    IN  /\ inv.rule = permissionsBreakingRuleID
        /\ inv.pc = "ready"
        /\ invocations' = [invocations EXCEPT ![i] =
             [inv EXCEPT !.againstConfig = getMethodPermissionConfig(inv.againstMethodDescriptor),
                         !.currentConfig = getMethodPermissionConfig(inv.methodDescriptor),
                         !.pc = "compare"]]
        /\ UNCHANGED tables
        /\ HostUnchanged

\* checkPermissionsBreaking: the test, the annotation and the return
permissionsCompare(i) ==
    LET inv == invocations[i]
    IN  /\ inv.rule = permissionsBreakingRuleID
        /\ inv.pc = "compare"
        /\ invocations' = [invocations EXCEPT ![i] =
             IF isBreakingChange(inv.againstConfig, inv.currentConfig)
             THEN [inv EXCEPT !.responseWriter =
                                Append(@, Annotation(breakingMessage(inv.methodDescriptor.fullName,
                                                                     inv.againstConfig,
                                                                     inv.currentConfig),
                                                     inv.methodDescriptor.fullName)),
                              !.pc = "done"]
             ELSE [inv EXCEPT !.pc = "done"]]
        /\ UNCHANGED tables
        /\ HostUnchanged

NextConcurrentInvocations ==
    \/ \E i \in 1..MaxInvocations : entityGetRequiredFields(i)
    \/ \E i \in 1..MaxInvocations : entityExtractNames(i)
    \/ \E i \in 1..MaxInvocations : entityRange(i)
    \/ \E i \in 1..MaxInvocations : entityReturn(i)
    \/ \E i \in 1..MaxInvocations : requestSelectFields(i)
    \/ \E i \in 1..MaxInvocations : requestValidate(i)
    \/ \E i \in 1..MaxInvocations : optionsRead(i)
    \/ \E i \in 1..MaxInvocations : optionsRange(i)
    \/ \E i \in 1..MaxInvocations : optionsRangeEnd(i)
    \/ \E i \in 1..MaxInvocations : optionsConflict(i)
    \/ \E i \in 1..MaxInvocations : permissionsConfigs(i)
    \/ \E i \in 1..MaxInvocations : permissionsCompare(i)

SpecConcurrentInvocations == InitConcurrentInvocations /\ [][NextConcurrentInvocations]_vars

(***************************************************************************)
(* Vocabulary of the properties of buf-plugin-required-fields.             *)
(***************************************************************************)
\* checkEntityFields has returned without an error
EntityFieldsChecked == rule = requiredEntityFieldsRuleID /\ pc = "done" /\ err = "nil"

\* checkRequestFields has returned
RequestFieldsChecked == rule = requiredRequestFieldsRuleID /\ pc = "done"

\* the messages of the file that checkEntityFields validates
EntityMessages ==
    LET entityNames == extractEntityNames(fileDescriptor)
    IN  { m \in { fileDescriptor.messages[i] : i \in 1..Len(fileDescriptor.messages) } :
            m.name \in entityNames }

\* the annotations anchored at the message itself
MessageLevelAnnotations(m) ==
    LET anchor == [message |-> String(m.name), field |-> ""]
    IN  SelectSeq(responseWriter, LAMBDA a : a.descriptor = anchor)

\* the names of R that the message does not declare, in the order of R
UndeclaredNames(R, m) ==
    SelectSeq(R, LAMBDA r : \A i \in 1..Len(m.fields) : m.fields[i] # r)

\* what the missing-fields validator is to report for message m and list R
MissingFieldsReport(R, m) ==
    IF \A i \in 1..Len(R) : \E j \in 1..Len(m.fields) : m.fields[j] = R[i]
    THEN MessageLevelAnnotations(m) = <<>>
    ELSE /\ Len(MessageLevelAnnotations(m)) = 1
         /\ MessageLevelAnnotations(m)[1].message =
              << "message ", Quote(String(m.name)), " is missing required fields: ",
                 FormatSlice(UndeclaredNames(R, m)) >>

\* C1: for every validated message M and required-field list R, no
\* missing-fields violation is reported iff M declares every name of R;
\* otherwise the reported list is the names of R that M does not declare,
\* in the order of R.
C1_MissingFieldsExactlyUndeclared ==
    /\ EntityFieldsChecked =>
         \A m \in EntityMessages :
             MissingFieldsReport(getRequiredEntityFields(request).value, m)
    /\ (RequestFieldsChecked /\ HasSuffix(messageDescriptor.name, <<"R","e","q","u","e","s","t">>)) =>
         MissingFieldsReport(requestRequiredFields(messageDescriptor.name), messageDescriptor)

C1_Witness ==
    /\ EntityFieldsChecked
    /\ request.options.required_entity_fields.value = << "account_id", "id" >>
    /\ \E i \in 1..Len(responseWriter) :
         responseWriter[i].message =
           << "message ", "\"Book\"", " is missing required fields: ", "[account_id id]" >>
    /\ \E m \in EntityMessages : m.fields = << "updated_at", "cloud_region" >>

(***************************************************************************)
(* Vocabulary of the properties of buf-plugin-permissions-breaking.        *)
(***************************************************************************)
againstConfig == getMethodPermissionConfig(againstMethodDescriptor)
currentConfig == getMethodPermissionConfig(methodDescriptor)

\* checkPermissionsBreaking has returned
PermissionsChecked == rule = permissionsBreakingRuleID /\ pc = "done"

\* the pair of methods was reported as a breaking change
Reported == responseWriter # <<>>

\* the permissions of a config as a set
PermissionSet(config) == { config.Permissions[i] : i \in 1..Len(config.Permissions) }

HasPermissions(config) == Len(config.Permissions) > 0

\* C2: with requiresAll = true on both sides and permissions on both sides,
\* the change is breaking iff the two permission sets differ.
C2_AndBreakingIffSetsDiffer ==
    (PermissionsChecked /\ againstConfig.RequiresAll /\ currentConfig.RequiresAll
        /\ HasPermissions(againstConfig) /\ HasPermissions(currentConfig))
    => (Reported <=> PermissionSet(againstConfig) # PermissionSet(currentConfig))

\* C3: with requiresAll = false on both sides and permissions on both sides,
\* the change is breaking iff some permission of against is absent from
\* current; a change that only adds permissions is not breaking.
C3_OrBreakingIffRemoved ==
    (PermissionsChecked /\ ~againstConfig.RequiresAll /\ ~currentConfig.RequiresAll
        /\ HasPermissions(againstConfig) /\ HasPermissions(currentConfig))
    => (Reported <=> ~(PermissionSet(againstConfig) \subseteq PermissionSet(currentConfig)))

C3_Witness ==
    /\ PermissionsChecked
    /\ ~againstConfig.RequiresAll /\ ~currentConfig.RequiresAll
    /\ HasPermissions(currentConfig)
    /\ PermissionSet(currentConfig) \subseteq PermissionSet(againstConfig)
    /\ PermissionSet(currentConfig) # PermissionSet(againstConfig)
    /\ Reported

\* C4: when requiresAll differs, the result depends only on the direction:
\* true -> false is never breaking, false -> true is always breaking,
\* whatever the permissions of either side.
C4_LogicChangeDirection ==
    (PermissionsChecked /\ againstConfig.RequiresAll # currentConfig.RequiresAll)
    => (Reported <=> (~againstConfig.RequiresAll /\ currentConfig.RequiresAll))

C4_Witness ==
    /\ PermissionsChecked
    /\ ~againstConfig.RequiresAll /\ currentConfig.RequiresAll
    /\ againstConfig.Permissions = currentConfig.Permissions
    /\ Reported

\* C5: with the same requiresAll, a change in which exactly one side has no
\* permissions is breaking.
C5_EmptyToNonEmptySameLogic ==
    (PermissionsChecked /\ againstConfig.RequiresAll = currentConfig.RequiresAll
        /\ HasPermissions(againstConfig) # HasPermissions(currentConfig))
    => Reported

C5_Witness ==
    /\ PermissionsChecked
    /\ ~againstConfig.RequiresAll /\ ~currentConfig.RequiresAll
    /\ HasPermissions(againstConfig) /\ ~HasPermissions(currentConfig)
    /\ Reported

\* C6: a change from no permissions to some, or from some to none, is
\* reported as breaking for every combination of requires_all_permissions.
C6_EmptyToNonEmptyAnyLogic ==
    (PermissionsChecked /\ HasPermissions(againstConfig) # HasPermissions(currentConfig))
    => Reported

\* C7: a config classified against itself is not breaking, so unchanged
\* permission options never produce an annotation.
C7_IdenticalNotBreaking ==
    (PermissionsChecked /\ againstConfig = currentConfig) => ~Reported

C7_Witness ==
    /\ PermissionsChecked
    /\ againstMethodDescriptor = methodDescriptor
    /\ Len(currentConfig.Permissions) > 1
    /\ ~Reported

\* C8: the permissions are a set: with the same requiresAll, two lists with
\* the same distinct normalized permissions are not breaking.
C8_SameSetNotBreaking ==
    (PermissionsChecked /\ againstConfig.RequiresAll = currentConfig.RequiresAll
        /\ PermissionSet(againstConfig) = PermissionSet(currentConfig))
    => ~Reported

\* entries that normalization drops: empty or made of whitespace only
BlankEntries == { <<>>, <<" ", "\t">> }

\* the declared permission lists that one normalization-neutral edit of l
\* gives: two neighbours exchanged, whitespace put before or after an
\* entry, or a blank entry put anywhere
NeutralListEdits(l) ==
    { [l EXCEPT ![i] = l[i + 1], ![i + 1] = l[i]] : i \in 1..(Len(l) - 1) }
    \cup { [l EXCEPT ![i] = <<" ">> \o l[i]] : i \in 1..Len(l) }
    \cup { [l EXCEPT ![i] = l[i] \o <<"\t">>] : i \in 1..Len(l) }
    \cup { SubSeq(l, 1, k) \o <<e>> \o SubSeq(l, k + 1, Len(l)) :
             k \in 0..Len(l), e \in BlankEntries }

\* the requires_all_permissions options that mean the same as o: an absent
\* option and an option set to true
NeutralRequiresAll(o) ==
    IF ~o.has THEN { [has |-> TRUE, val |-> TRUE] }
    ELSE IF o.val THEN { [has |-> FALSE, val |-> FALSE] }
    ELSE {}

\* the method descriptors one normalization-neutral edit away from md
NormalizationVariants(md) ==
    { [md EXCEPT !.permissions = l] : l \in NeutralListEdits(md.permissions) }
    \cup { [md EXCEPT !.requiresAllPermissions = o] :
             o \in NeutralRequiresAll(md.requiresAllPermissions) }

\* C9: reordering the declared entries, whitespace around an entry, blank
\* entries, and writing requires_all_permissions = true instead of leaving
\* it out never change whether the pair is reported as breaking.
C9_NormalizationInvariant ==
    PermissionsChecked =>
        LET a == againstConfig
            c == currentConfig
        IN  /\ \A v \in NormalizationVariants(methodDescriptor) :
                 isBreakingChange(a, getMethodPermissionConfig(v)) <=> Reported
            /\ \A v \in NormalizationVariants(againstMethodDescriptor) :
                 isBreakingChange(getMethodPermissionConfig(v), c) <=> Reported

C9_Witness ==
    /\ PermissionsChecked
    /\ methodDescriptor.permissions = << <<"b", " ">>, <<"\t", "a">> >>
    /\ ~methodDescriptor.requiresAllPermissions.has
    /\ againstMethodDescriptor.permissions = << <<"a">>, <<"b", " ">> >>
    /\ againstMethodDescriptor.requiresAllPermissions = [has |-> TRUE, val |-> TRUE]
    /\ ~Reported

\* the message has the printed list l as one of its segments
NamesList(message, l) == \E i \in 1..Len(message) : message[i] = FormatStrings(l)

\* the message has "requires_all=<b>" in it
NamesRequiresAll(message, b) ==
    \E i \in 1..(Len(message) - 1) :
        /\ message[i] \in { " permissions logic changed from requires_all=",
                            " to requires_all=", " (requires_all=" }
        /\ message[i + 1] = FormatBool(b)

\* the message has the quoted full name of the method in it
NamesMethod(message, fullName) == \E i \in 1..Len(message) : message[i] = Quote(fullName)

\* C10 as stated: every annotation names the method, the previous and the
\* current permission list, and the requiresAll value(s) involved.
C10_AnnotationNamesEverything ==
    PermissionsChecked =>
        \A i \in 1..Len(responseWriter) :
            LET m == responseWriter[i].message
            IN  /\ NamesMethod(m, methodDescriptor.fullName)
                /\ NamesList(m, againstConfig.Permissions)
                /\ NamesList(m, currentConfig.Permissions)
                /\ NamesRequiresAll(m, againstConfig.RequiresAll)
                /\ NamesRequiresAll(m, currentConfig.RequiresAll)

\* C10 amended: every annotation names the method and is anchored at it.
\* When the current version has no permissions it names the previous list;
\* otherwise when the previous version has none it names the current list;
\* in these two branches no requiresAll value is named.  When both versions
\* have permissions it names both lists and the requiresAll value of both
\* versions.
C10_AnnotationNamesByBranch ==
    PermissionsChecked =>
        \A i \in 1..Len(responseWriter) :
            LET m == responseWriter[i].message
            IN  /\ NamesMethod(m, methodDescriptor.fullName)
                /\ responseWriter[i].descriptor = methodDescriptor.fullName
                /\ ~HasPermissions(currentConfig) =>
                     /\ NamesList(m, againstConfig.Permissions)
                     /\ \A b \in BOOLEAN : ~NamesRequiresAll(m, b)
                /\ (HasPermissions(currentConfig) /\ ~HasPermissions(againstConfig)) =>
                     /\ NamesList(m, currentConfig.Permissions)
                     /\ ~NamesList(m, againstConfig.Permissions)
                     /\ \A b \in BOOLEAN : ~NamesRequiresAll(m, b)
                /\ (HasPermissions(currentConfig) /\ HasPermissions(againstConfig)) =>
                     /\ NamesList(m, againstConfig.Permissions)
                     /\ NamesList(m, currentConfig.Permissions)
                     /\ NamesRequiresAll(m, againstConfig.RequiresAll)
                     /\ NamesRequiresAll(m, currentConfig.RequiresAll)
                     /\ \A b \in BOOLEAN :
                          NamesRequiresAll(m, b) =>
                              b \in {againstConfig.RequiresAll, currentConfig.RequiresAll}

C10_Witness ==
    /\ PermissionsChecked
    /\ Reported
    /\ HasPermissions(againstConfig) /\ HasPermissions(currentConfig)
    /\ ~againstConfig.RequiresAll /\ currentConfig.RequiresAll
    /\ againstConfig.Permissions # currentConfig.Permissions


(***************************************************************************)
(* Methods that exist in only one version of the files                     *)
(***************************************************************************)
PairsChecked == files # NoFiles /\ pc = "done"

\* the methods of the current files with no method of the same full name in
\* the previous files
NewMethods == { md \in files : \A amd \in againstFiles : amd.fullName # md.fullName }

AnchoredAt(fullName) ==
    { i \in 1..Len(responseWriter) : responseWriter[i].descriptor = fullName }

\* C11: a method that exists only in the current files never gets a
\* permissions-breaking annotation, whatever its permissions and
\* requires_all_permissions are; a method that also exists in the previous
\* files gets one exactly when the change of its configuration is breaking.
C11_NewMethodsNeverAnnotated ==
    PairsChecked =>
        /\ \A md \in NewMethods : AnchoredAt(md.fullName) = {}
        /\ \A md \in files \ NewMethods :
             \A amd \in againstFiles :
               amd.fullName = md.fullName =>
                 (AnchoredAt(md.fullName) # {}
                    <=> isBreakingChange(getMethodPermissionConfig(amd),
                                         getMethodPermissionConfig(md)))

C11_Witness ==
    /\ PairsChecked
    /\ \E md \in NewMethods :
         /\ HasPermissionsExtension(md)
         /\ md.requiresAllPermissions.has
         /\ AnchoredAt(md.fullName) = {}
    /\ \E md \in files \ NewMethods : AnchoredAt(md.fullName) # {}

(***************************************************************************)
(* Entity name inference                                                   *)
(***************************************************************************)
\* the entity name with singularization only after List, Get and Delete
RemainderSingularOnlyForCollection(methodName) ==
    LET found == FirstPrefix(methodName, crudMethodPrefixes)
    IN  IF found = <<>> THEN <<>>
        ELSE IF FirstPrefix(methodName, crudMethodWithoutFullEntityPrefixes) # <<>>
             THEN Singular(TrimPrefix(methodName, found[1]))
             ELSE TrimPrefix(methodName, found[1])

\* C12: a method name with none of the prefixes contributes no entity name;
\* after List, Get or Delete the entity is the singular of the remainder;
\* after Update or Create it is the remainder unchanged.
C12_UpdateCreateKeepRemainder ==
    EntityFieldsChecked =>
        \A m \in fileDescriptor.methods :
            inferEntityFromMethodName(m) = RemainderSingularOnlyForCollection(m)

\* the messages of the file
FileMessages == { fileDescriptor.messages[i] : i \in 1..Len(fileDescriptor.messages) }

\* no method of the file's services infers the name as an entity
NotInferred(name) ==
    \A m \in fileDescriptor.methods : inferEntityFromMethodName(m) # name

\* the annotations anchored at the message or at one of its fields
AnnotationsOf(m) ==
    LET name == String(m.name)
    IN  SelectSeq(responseWriter, LAMBDA a : a.descriptor.message = name)

\* C13: a message whose name no method of the file's services infers as an
\* entity gets no annotation from the required-entity-fields rule, neither
\* for a missing field nor for a discouraged field name, whatever its fields.
C13_NonEntityNeverAnnotated ==
    (rule = requiredEntityFieldsRuleID /\ pc = "done") =>
        \A m \in FileMessages : NotInferred(m.name) => AnnotationsOf(m) = <<>>

C13_Witness ==
    /\ EntityFieldsChecked
    /\ \E m \in FileMessages :
         /\ NotInferred(m.name)
         /\ m.fields = << "updated_at" >>
         /\ AnnotationsOf(m) = <<>>
    /\ \E m \in EntityMessages : Len(AnnotationsOf(m)) = 2

(***************************************************************************)
(* The configured and the default lists of required fields                 *)
(***************************************************************************)
\* the list a rule is to use for an option: the configured list when it is
\* not empty, the default list when the option is absent or empty
ResolvedList(optionValue, default) ==
    IF optionValue.kind = "list" /\ optionValue.value # <<>>
    THEN optionValue.value
    ELSE default

\* C14: the required-entity-fields rule checks the entity messages against
\* exactly the list of the option required_entity_fields when it is not
\* empty, and against [id, name, account_id, created_at] when the option is
\* absent or empty.
C14_EntityListFromOptionOrDefault ==
    EntityFieldsChecked =>
        \A m \in EntityMessages :
            MissingFieldsReport(
                ResolvedList(request.options.required_entity_fields,
                             << "id", "name", "account_id", "created_at" >>), m)

C14_Witness ==
    /\ EntityFieldsChecked
    /\ request.options.required_entity_fields.value = << "account_id" >>
    /\ \E m \in EntityMessages :
         /\ m.fields = << "cloud_region" >>
         /\ MessageLevelAnnotations(m) =
              << Annotation(<< "message ", Quote(String(m.name)),
                               " is missing required fields: ", "[account_id]" >>,
                            [message |-> String(m.name), field |-> ""]) >>

\* the message given to checkRequestFields is one the rule applies to
RequestApplicable ==
    /\ HasSuffix(messageDescriptor.name, <<"R","e","q","u","e","s","t">>)
    /\ \E i \in 1..Len(crudMethodWithoutFullEntityPrefixes) :
         HasPrefix(messageDescriptor.name, crudMethodWithoutFullEntityPrefixes[i])

\* C15: the required-request-fields rule checks an applicable request
\* message against the list of the option required_request_fields when it
\* is not empty, and against [account_id] only when the option is absent or
\* empty.
C15_RequestListFromOptionOrDefault ==
    (RequestFieldsChecked /\ RequestApplicable) =>
        MissingFieldsReport(
            ResolvedList(request.options.required_request_fields, << "account_id" >>),
            messageDescriptor)

(***************************************************************************)
(* The messages the required-request-fields rule applies to                *)
(***************************************************************************)
EndsWithRequest == HasSuffix(messageDescriptor.name, <<"R","e","q","u","e","s","t">>)

\* a method that uses the message has a name starting with List, Get or Delete
OwnedByCollectionMethod ==
    \E owner \in messageDescriptor.usedBy :
        \E i \in 1..Len(crudMethodWithoutFullEntityPrefixes) :
            HasPrefix(owner, crudMethodWithoutFullEntityPrefixes[i])

\* C16 as stated: the check is applied iff the message name ends with
\* "Request" and the method that uses the message has a name starting with
\* List, Get or Delete, never on the basis of the message's own name.
C16_AppliedByOwningMethod ==
    RequestFieldsChecked =>
        IF EndsWithRequest /\ OwnedByCollectionMethod
        THEN MissingFieldsReport(<< "account_id" >>, messageDescriptor)
        ELSE responseWriter = <<>>

\* C16: the required-request-fields check is applied to a message iff the
\* message's own name ends with "Request" and starts with List, Get or
\* Delete; the methods that use the message play no part.
C16_AppliedByMessageName ==
    RequestFieldsChecked =>
        IF RequestApplicable
        THEN MissingFieldsReport(<< "account_id" >>, messageDescriptor)
        ELSE responseWriter = <<>>

C16_Witness ==
    /\ RequestFieldsChecked
    /\ RequestApplicable
    /\ ~OwnedByCollectionMethod
    /\ messageDescriptor.usedBy # {}
    /\ messageDescriptor.fields = << "name" >>
    /\ Len(responseWriter) = 1

StartsWithCreateOrUpdate ==
    \/ HasPrefix(messageDescriptor.name, <<"C","r","e","a","t","e">>)
    \/ HasPrefix(messageDescriptor.name, <<"U","p","d","a","t","e">>)

DeclaresAccountId ==
    \E i \in 1..Len(messageDescriptor.fields) : messageDescriptor.fields[i] = "account_id"

\* C17: a message whose name does not end with "Request", or ends with
\* "Request" but starts with Create or Update, never gets a
\* required-request-fields annotation, even without an account_id field.
C17_ExemptMessagesNeverAnnotated ==
    (RequestFieldsChecked /\ (~EndsWithRequest \/ StartsWithCreateOrUpdate)) =>
        responseWriter = <<>>

C17_Witness ==
    /\ RequestFieldsChecked
    /\ EndsWithRequest
    /\ StartsWithCreateOrUpdate
    /\ ~DeclaresAccountId
    /\ responseWriter = <<>>

(***************************************************************************)
(* Repeated names in the report of the missing fields                      *)
(***************************************************************************)
\* the printed lists that name fields of R, each at most once
ListsWithoutRepetition(R) ==
    { FormatSlice(l) : l \in FieldLists({ R[i] : i \in 1..Len(R) }, Len(R)) }

\* C18: for every message and every resolved list of required fields, the
\* default one or a configured one, the report names each missing field at
\* most once.
C18_MissingFieldReportedOnce ==
    /\ EntityFieldsChecked =>
         \A m \in EntityMessages :
           \A i \in 1..Len(MessageLevelAnnotations(m)) :
             MessageLevelAnnotations(m)[i].message[4]
               \in ListsWithoutRepetition(getRequiredEntityFields(request).value)
    /\ (RequestFieldsChecked /\ EndsWithRequest) =>
         \A i \in 1..Len(MessageLevelAnnotations(messageDescriptor)) :
           MessageLevelAnnotations(messageDescriptor)[i].message[4]
             \in ListsWithoutRepetition(requestRequiredFields(messageDescriptor.name))

(***************************************************************************)
(* Discouraged field names                                                 *)
(***************************************************************************)
\* the annotations anchored at field f of message m
FieldLevelAnnotations(m, f) ==
    LET anchor == [message |-> String(m.name), field |-> f]
    IN  SelectSeq(responseWriter, LAMBDA a : a.descriptor = anchor)

Discouraged(f) ==
    f \in DOMAIN preferredEntityFieldNames /\ preferredEntityFieldNames[f] # f

\* C19: for every field of an entity message a discouraged-name violation
\* is reported iff the field's name is a key of the mapping and the
\* preferred name differs from it; the violation is anchored at the field
\* and does not depend on the message failing the required-fields check.
C19_DiscouragedIffMapped ==
    EntityFieldsChecked =>
        \A m \in EntityMessages :
          \A k \in 1..Len(m.fields) :
            IF Discouraged(m.fields[k])
            THEN FieldLevelAnnotations(m, m.fields[k]) =
                   << Annotation(<< "field ", Quote(m.fields[k]), " is discouraged, use ",
                                    Quote(preferredEntityFieldNames[m.fields[k]]), " instead" >>,
                                 [message |-> String(m.name), field |-> m.fields[k]]) >>
            ELSE FieldLevelAnnotations(m, m.fields[k]) = <<>>

C19_Witness ==
    /\ EntityFieldsChecked
    /\ request.options.required_entity_fields.value = << "id" >>
    /\ \E m \in EntityMessages :
         /\ m.fields = << "id", "updated_at" >>
         /\ MessageLevelAnnotations(m) = <<>>
         /\ FieldLevelAnnotations(m, "updated_at") =
              << Annotation(<< "field ", "\"updated_at\"", " is discouraged, use ",
                               "\"last_modified_at\"", " instead" >>,
                            [message |-> String(m.name), field |-> "updated_at"]) >>
         /\ FieldLevelAnnotations(m, "id") = <<>>

(***************************************************************************)
(* Vocabulary of the properties of buf-plugin-method-options.              *)
(***************************************************************************)
\* checkMethodOptions has returned without an error
MethodOptionsChecked == rule = methodOptionsRuleID /\ pc = "done" /\ err = "nil"

\* the list of required options in force: the configured list when it is
\* not empty, the two default options otherwise
RequiredOptions ==
    IF request.options.required_method_options.kind = "list"
       /\ request.options.required_method_options.value # <<>>
    THEN request.options.required_method_options.value
    ELSE << "qdrant.cloud.common.v1.permissions", "google.api.http" >>

RegistryKeys == { "qdrant.cloud.common.v1.permissions", "google.api.http" }

AllKeysKnown == \A i \in 1..Len(RequiredOptions) : RequiredOptions[i] \in RegistryKeys

AuthenticationWaived ==
    methodDescriptor.requiresAuthentication.has /\ ~methodDescriptor.requiresAuthentication.val

\* the method sets the option with this key
Sets(key) ==
    IF key = "qdrant.cloud.common.v1.permissions"
    THEN methodDescriptor.permissions # <<>>
    ELSE methodDescriptor.http

\* the "does not define" annotations for the option, anchored at the method
MissingOptionAnnotations(key) ==
    SelectSeq(responseWriter,
              LAMBDA a : a = Annotation(<< "Method ", Quote(methodDescriptor.fullName),
                                           " does not define the ", Quote(key), " option" >>,
                                        methodDescriptor.fullName))

\* C20: for a method that does not set requires_authentication to false and
\* a list of required options whose keys are all in the registry, there is
\* exactly one "does not define the ... option" annotation, anchored at the
\* method, for each required option the method does not set, and none for
\* an option it sets.
C20_OneAnnotationPerMissingOption ==
    (MethodOptionsChecked /\ ~AuthenticationWaived /\ AllKeysKnown) =>
        \A key \in RegistryKeys :
            Len(MissingOptionAnnotations(key)) =
                IF (\E i \in 1..Len(RequiredOptions) : RequiredOptions[i] = key) /\ ~Sets(key)
                THEN 1 ELSE 0

(***************************************************************************)
(* The waiver of the permissions requirement                               *)
(***************************************************************************)
PermissionsKey == "qdrant.cloud.common.v1.permissions"

Required(key) == \E i \in 1..Len(RequiredOptions) : RequiredOptions[i] = key

\* C21: for a method that does not set permissions, with permissions in the
\* list of required options, the missing-permissions annotation is
\* suppressed iff the method sets requires_authentication to false; when
\* requires_authentication is absent or true the annotation is emitted.
C21_WaiverIffAuthenticationFalse ==
    (MethodOptionsChecked /\ ~Sets(PermissionsKey) /\ Required(PermissionsKey)) =>
        (MissingOptionAnnotations(PermissionsKey) = <<>> <=> AuthenticationWaived)

\* C22: the waiver removes only the permissions requirement: a method that
\* sets requires_authentication to false and sets neither permissions nor
\* another required option still gets the annotation for that other option.
C22_WaiverKeepsOtherOptions ==
    (MethodOptionsChecked /\ AuthenticationWaived /\ AllKeysKnown /\ ~Sets(PermissionsKey)) =>
        \A key \in RegistryKeys \ { PermissionsKey } :
            (Required(key) /\ ~Sets(key)) => MissingOptionAnnotations(key) # <<>>

\* the keys of the list before the first occurrence of the key
KeysBefore(key) ==
    { RequiredOptions[i] : i \in { j \in 1..Len(RequiredOptions) :
                                     \A k \in 1..j : RequiredOptions[k] # key } }

\* C21: for a method that does not set permissions, with permissions in the
\* list of required options and no key outside the registry before it, the
\* missing-permissions annotation is suppressed iff the method sets
\* requires_authentication to false.
C21_WaiverWhenPermissionsReached ==
    (/\ MethodOptionsChecked
     /\ ~Sets(PermissionsKey)
     /\ Required(PermissionsKey)
     /\ KeysBefore(PermissionsKey) \subseteq RegistryKeys) =>
        (MissingOptionAnnotations(PermissionsKey) = <<>> <=> AuthenticationWaived)

C21_Witness ==
    /\ MethodOptionsChecked
    /\ ~Sets(PermissionsKey)
    /\ RequiredOptions = << "google.api.http", "qdrant.cloud.common.v1.permissions" >>
    /\ AuthenticationWaived
    /\ ~Sets("google.api.http")
    /\ MissingOptionAnnotations(PermissionsKey) = <<>>
    /\ Len(MissingOptionAnnotations("google.api.http")) = 1

(***************************************************************************)
(* Keys that are not in the extension registry                             *)
(***************************************************************************)
\* the annotation for a key that is not in the registry: it has no location
UnknownKeyAnnotation(key) ==
    Annotation(<< "extension key ", Quote(key), " does not exist" >>, "")

UnknownKeys == { RequiredOptions[i] : i \in 1..Len(RequiredOptions) } \ RegistryKeys

\* the index of the first key of the list that is not in the registry
FirstUnknown ==
    CHOOSE i \in 1..Len(RequiredOptions) :
        /\ RequiredOptions[i] \notin RegistryKeys
        /\ \A j \in 1..(i - 1) : RequiredOptions[j] \in RegistryKeys

UnknownKeyAnnotations ==
    SelectSeq(responseWriter, LAMBDA a : \E key \in MethodOptionKeys : a = UnknownKeyAnnotation(key))

\* C23: when the list of required options holds a key that is not in the
\* registry, there is exactly one "extension key ... does not exist"
\* annotation, without a location, for the first such key; nothing is
\* emitted after it; the missing-option annotations of the keys before it
\* are kept.
C23_FirstUnknownKeyEndsCheck ==
    (MethodOptionsChecked /\ ~AllKeysKnown) =>
        /\ UnknownKeyAnnotations = << UnknownKeyAnnotation(RequiredOptions[FirstUnknown]) >>
        /\ responseWriter[Len(responseWriter)] = UnknownKeyAnnotation(RequiredOptions[FirstUnknown])
        /\ \A j \in 1..(FirstUnknown - 1) :
             (/\ ~Sets(RequiredOptions[j])
              /\ ~(RequiredOptions[j] = PermissionsKey /\ AuthenticationWaived)) =>
                 MissingOptionAnnotations(RequiredOptions[j]) # <<>>

ConflictAnnotations ==
    SelectSeq(responseWriter,
              LAMBDA a : a = Annotation(<< "Method ", Quote(methodDescriptor.fullName),
                                           " has permissions set but account_id_expression is empty. Methods with permissions require a non-empty account_id_expression since permissions are checked in the scope of the account" >>,
                                        methodDescriptor.fullName))

HasNonEmptyPermission ==
    \E i \in 1..Len(methodDescriptor.permissions) : methodDescriptor.permissions[i] # ""

\* C25: for every method and every list of required options whose keys are
\* all in the registry, the conflict annotation is emitted, anchored at the
\* method, iff the method sets permissions with at least one non-empty
\* entry and sets account_id_expression to the empty string.
C25_ConflictIffEmptyExpression ==
    (MethodOptionsChecked /\ AllKeysKnown) =>
        Len(ConflictAnnotations) =
            IF /\ HasNonEmptyPermission
               /\ methodDescriptor.accountIdExpression.has
               /\ methodDescriptor.accountIdExpression.val = ""
            THEN 1 ELSE 0

C25_Witness ==
    /\ MethodOptionsChecked
    /\ RequiredOptions = << "google.api.http" >>
    /\ HasNonEmptyPermission
    /\ methodDescriptor.accountIdExpression = [has |-> TRUE, val |-> ""]
    /\ methodDescriptor.http
    /\ Len(responseWriter) = 1
    /\ Len(ConflictAnnotations) = 1

(***************************************************************************)
(* Malformed values of the string-list options                             *)
(***************************************************************************)
\* the option the rule of this invocation reads has a malformed value
MalformedOption ==
    \/ /\ rule = requiredEntityFieldsRuleID
       /\ request.options.required_entity_fields.kind = "malformed"
    \/ /\ rule = methodOptionsRuleID
       /\ request.options.required_method_options.kind = "malformed"

\* C26: when the string-list option of a rule (required_entity_fields,
\* required_method_options) is malformed, the invocation returns an error
\* and has emitted no annotation; nothing else is changed.
C26_MalformedOptionFails ==
    [][ (pc = "ready" /\ MalformedOption) =>
           /\ pc' = "done"
           /\ err' # "nil"
           /\ responseWriter' = <<>>
           /\ UNCHANGED <<rule, request, methodDescriptor, againstMethodDescriptor,
                          fileDescriptor, messageDescriptor, files, againstFiles,
                          tables, invocations>> ]_vars

C26_Witness ==
    /\ pc = "done"
    /\ MalformedOption
    /\ rule = requiredEntityFieldsRuleID
    /\ err # "nil"
    /\ responseWriter = <<>>
    /\ \E m \in EntityMessages : m.fields = << "updated_at" >>

(***************************************************************************)
(* The order of the annotations of one message                             *)
(***************************************************************************)
\* the discouraged-name annotations of the fields of m from index k on, in
\* the order the fields are declared
RECURSIVE DiscouragedInDeclarationOrder(_, _)
DiscouragedInDeclarationOrder(m, k) ==
    IF k > Len(m.fields) THEN <<>>
    ELSE (IF Discouraged(m.fields[k])
          THEN << Annotation(<< "field ", Quote(m.fields[k]), " is discouraged, use ",
                                Quote(preferredEntityFieldNames[m.fields[k]]), " instead" >>,
                             [message |-> String(m.name), field |-> m.fields[k]]) >>
          ELSE <<>>)
         \o DiscouragedInDeclarationOrder(m, k + 1)

\* C28: for one message, every field-level error comes before any
\* message-level error, the field-level errors in the order the fields are
\* declared, and the annotations are emitted in that order.
C28_FieldErrorsBeforeMessageErrors ==
    EntityFieldsChecked =>
        \A m \in EntityMessages :
            AnnotationsOf(m) = DiscouragedInDeclarationOrder(m, 1) \o MessageLevelAnnotations(m)

C28_Witness ==
    /\ EntityFieldsChecked
    /\ \E m \in EntityMessages :
         /\ m.fields = << "updated_at", "cloud_region" >>
         /\ Len(AnnotationsOf(m)) = 3
         /\ AnnotationsOf(m)[1].descriptor.field = "updated_at"
         /\ AnnotationsOf(m)[2].descriptor.field = "cloud_region"
         /\ AnnotationsOf(m)[3].descriptor.field = ""

(***************************************************************************)
(* The classifier and the access of callers                                *)
(***************************************************************************)
\* a caller holding the permissions P is allowed by the config
Allowed(config, P) ==
    \/ ~HasPermissions(config)
    \/ config.RequiresAll /\ PermissionSet(config) \subseteq P
    \/ ~config.RequiresAll /\ PermissionSet(config) \cap P # {}

\* C29: whenever the change is not classified as breaking, in particular for
\* every change of requiresAll from true to false, every caller allowed by
\* the previous config is allowed by the current one.
C29_NotBreakingKeepsAccess ==
    (PermissionsChecked /\ ~Reported) =>
        \A P \in SUBSET (PermissionSet(againstConfig) \cup PermissionSet(currentConfig)) :
            Allowed(againstConfig, P) => Allowed(currentConfig, P)

\* C30: the "had permissions ... but now has no permissions" message is
\* emitted only when the previous version had permissions and the current
\* one has none, and the "had no permissions but now requires permissions"
\* message only when the previous version had none and the current one has
\* some.
C30_WordingMatchesChange ==
    PermissionsChecked =>
        \A i \in 1..Len(responseWriter) :
            /\ responseWriter[i].message[3] = " had permissions " =>
                 (HasPermissions(againstConfig) /\ ~HasPermissions(currentConfig))
            /\ responseWriter[i].message[3] = " had no permissions but now requires permissions " =>
                 (~HasPermissions(againstConfig) /\ HasPermissions(currentConfig))

(***************************************************************************)
(* Hidden state of the handlers                                            *)
(***************************************************************************)
AnnotationSet(annotations) == { annotations[i] : i \in 1..Len(annotations) }

\* the error a handler returns for the arguments of an invocation when
\* nothing else runs
HandlerError(inv) ==
    IF inv.rule = requiredEntityFieldsRuleID THEN getRequiredEntityFields(inv.request).err
    ELSE IF inv.rule = methodOptionsRuleID
    THEN GetStringSliceValue(inv.request.options, methodOptionsOptionKey).err
    ELSE "nil"

\* the annotations a handler adds for the arguments of an invocation when
\* nothing else runs (in one of the orders of its map)
HandlerAnnotations(inv) ==
    IF HandlerError(inv) # "nil" THEN <<>>
    ELSE IF inv.rule = requiredEntityFieldsRuleID
    THEN entityAnnotations(inv.fileDescriptor, getRequiredEntityFields(inv.request).value,
                           CHOOSE order \in MapOrders(extractEntityNames(inv.fileDescriptor)) : TRUE)
    ELSE IF inv.rule = requiredRequestFieldsRuleID
    THEN IF ~HasSuffix(inv.messageDescriptor.name, <<"R","e","q","u","e","s","t">>) THEN <<>>
         ELSE errorAnnotations(validateMessage(inv.messageDescriptor, <<>>,
                  << requestRequiredFields(inv.messageDescriptor.name) >>))
    ELSE IF inv.rule = methodOptionsRuleID
    THEN LET got == GetStringSliceValue(inv.request.options, methodOptionsOptionKey)
             loop == requiredOptionsLoop(inv.methodDescriptor, requiredOptionsOf(got.value))
         IN  IF loop.returned THEN loop.annotations
             ELSE loop.annotations \o conflictAnnotations(inv.methodDescriptor)
    ELSE permissionsBreakingAnnotations(inv.methodDescriptor, inv.againstMethodDescriptor)

\* two invocations have the same descriptors and options
SameArguments(a, b) ==
    /\ a.rule = b.rule
    /\ a.request = b.request
    /\ a.fileDescriptor = b.fileDescriptor
    /\ a.messageDescriptor = b.messageDescriptor
    /\ a.methodDescriptor = b.methodDescriptor
    /\ a.againstMethodDescriptor = b.againstMethodDescriptor

\* C27: the handlers keep no hidden state. Whatever statements of other
\* invocations ran before or between the statements of an invocation: the
\* shared default tables keep the values of their declarations; the
\* invocation adds only annotations its handler adds for its descriptors and
\* options when it runs alone, and has added exactly that set (and returns
\* that error) when it returns; and two invocations on identical descriptors
\* and options that returned have identical annotation sets.
C27_NoHiddenState ==
    /\ tables = PackageTables
    /\ \A i \in DOMAIN invocations :
         LET inv == invocations[i]
             alone == AnnotationSet(HandlerAnnotations(inv))
         IN  /\ AnnotationSet(inv.responseWriter) \subseteq alone
             /\ inv.pc = "done" =>
                  /\ AnnotationSet(inv.responseWriter) = alone
                  /\ inv.err = HandlerError(inv)
    /\ \A i, j \in DOMAIN invocations :
         ( /\ SameArguments(invocations[i], invocations[j])
           /\ invocations[i].pc = "done"
           /\ invocations[j].pc = "done" ) =>
           /\ AnnotationSet(invocations[i].responseWriter)
                = AnnotationSet(invocations[j].responseWriter)
           /\ invocations[i].err = invocations[j].err

\* two invocations of checkEntityFields on the same file and options are both
\* inside their loops, with entity names still to come, and have taken the
\* entity names in different orders
C27_Witness ==
    /\ pc = "concurrent"
    /\ invocations[1].rule = requiredEntityFieldsRuleID
    /\ SameArguments(invocations[1], invocations[2])
    /\ invocations[1].pc = "range"
    /\ invocations[2].pc = "range"
    /\ invocations[1].entityNames # {}
    /\ invocations[2].entityNames # {}
    /\ invocations[1].responseWriter # <<>>
    /\ invocations[2].responseWriter # <<>>
    /\ invocations[1].responseWriter # invocations[2].responseWriter
====
